---------------------------- MODULE Spec2Model ----------------------------
(***************************************************************************)
(* A model of generateRandomData (src/unnamed/part_000), the schema-driven *)
(* random data generator, as a state machine with an explicit call stack.  *)
(*                                                                         *)
(* JavaScript values are tagged records, JavaScript numbers are exact      *)
(* rationals [n, d] in lowest terms, JavaScript strings are sequences of   *)
(* one-character strings, and JSON text (the output of JSON.stringify) is  *)
(* a TLA+ string.  Math.random() is sampled on a finite grid of [0, 1).    *)
(* Number.MIN_SAFE_INTEGER, Number.MAX_SAFE_INTEGER and the bounds -1e10   *)
(* and 1e10 are defined but lie outside the integers TLC computes with:    *)
(* every integer and number node of the schemas below declares both its    *)
(* bounds.                                                                 *)
(***************************************************************************)
EXTENDS Integers, Sequences, FiniteSets, TLC

(***************************************************************************)
(* Bounds of the model.                                                    *)
(***************************************************************************)
\* Math.random() returns k / RandRes for k in 0 .. RandRes - 1.
RandRes == 21

\* generateRandomData is called at most MaxCalls times on the same schema.
MaxCalls == 2

(***************************************************************************)
(* JavaScript numbers: exact rationals n / d, d > 0, in lowest terms.  The  *)
(* operations are applications of functions, which take their operands as  *)
(* values: an operand that is itself a sum or a product is worked out once.*)
(***************************************************************************)
Abs(i) == IF i < 0 THEN -i ELSE i

Gcd[a \in Nat, b \in Nat] == IF b = 0 THEN a ELSE Gcd[b, a % b]

Reduced[n \in Int, d \in Nat \ {0}] ==
    LET g == Gcd[Abs(n), d]
    IN  [n |-> n \div g, d |-> d \div g]

Rat(n, d) == Reduced[n, d]

Rational == [n : Int, d : Nat \ {0}]

FromInt(i) == [n |-> i, d |-> 1]

Sum[x \in Rational, y \in Rational] == Rat(x.n * y.d + y.n * x.d, x.d * y.d)

Difference[x \in Rational, y \in Rational] ==
    Rat(x.n * y.d - y.n * x.d, x.d * y.d)

Product[x \in Rational, y \in Rational] == Rat(x.n * y.n, x.d * y.d)

Add(x, y) == Sum[x, y]

Sub(x, y) == Difference[x, y]

Mul(x, y) == Product[x, y]

Less(x, y) == x.n * y.d < y.n * x.d

LessEq(x, y) == x.n * y.d <= y.n * x.d

\* Math.floor: the largest integer not above x.
Floor(x) == x.n \div x.d

\* Number.isInteger
IsInteger(x) == x.d = 1

(***************************************************************************)
(* JavaScript values.                                                      *)
(***************************************************************************)
Num(x) == [t |-> "number", x |-> x]

IntVal(i) == Num(FromInt(i))

Str(s) == [t |-> "string", s |-> s]

Bool(b) == [t |-> "boolean", b |-> b]

Null == [t |-> "null"]

Undefined == [t |-> "undefined"]

Arr(items) == [t |-> "array", items |-> items]

\* An object is the sequence of its own properties <<[k, v], ...>> in
\* insertion order, which is the order JSON.stringify and for-in follow.
Obj(entries) == [t |-> "object", entries |-> entries]

Keys(entries) == {entries[i].k : i \in DOMAIN entries}

Get(entries, key) == (CHOOSE i \in DOMAIN entries : entries[i].k = key)

(***************************************************************************)
(* JSON.stringify.                                                         *)
(***************************************************************************)
Digit(i) == CASE i = 0 -> "0" [] i = 1 -> "1" [] i = 2 -> "2" [] i = 3 -> "3"
              [] i = 4 -> "4" [] i = 5 -> "5" [] i = 6 -> "6" [] i = 7 -> "7"
              [] i = 8 -> "8" [] i = 9 -> "9"

RECURSIVE NatToString(_)
NatToString(i) ==
    IF i < 10 THEN Digit(i) ELSE NatToString(i \div 10) \o Digit(i % 10)

\* The decimal digits of rem / d after the point, by long division; a
\* JavaScript number prints at most 17 significant digits.
RECURSIVE FractionDigits(_, _, _)
FractionDigits(rem, d, left) ==
    IF rem = 0 \/ left = 0 THEN ""
    ELSE Digit((rem * 10) \div d) \o FractionDigits((rem * 10) % d, d, left - 1)

\* Number.prototype.toString for a finite number, e.g. 3, -2, 1.5, 0.25
NumberToString(x) ==
    LET a    == Abs(x.n)
        sign == IF x.n < 0 THEN "-" ELSE ""
        frac == FractionDigits(a % x.d, x.d, 17)
    IN  sign \o NatToString(a \div x.d) \o (IF frac = "" THEN "" ELSE "." \o frac)

RECURSIVE Concat(_)
Concat(chars) ==
    IF chars = <<>> THEN "" ELSE Head(chars) \o Concat(Tail(chars))

\* JSON text of a string: the string between double quotes (the strings of the model hold no
\* character that JSON escapes).
Quote(str) == "\"" \o str \o "\""

\* JSON.stringify(value).  undefined has no JSON text: as an array element
\* it prints as null, as a property value its property is left out, and
\* JSON.stringify(undefined) itself is undefined, which is equal (===) to
\* nothing but itself.
RECURSIVE JsonStringify(_)
RECURSIVE JoinItems(_)
RECURSIVE JoinEntries(_)
JoinItems(items) ==
    IF items = <<>> THEN ""
    ELSE (IF Head(items).t = "undefined" THEN "null"
          ELSE JsonStringify(Head(items))) \o
         (IF Len(items) = 1 THEN "" ELSE "," \o JoinItems(Tail(items)))

JoinEntries(entries) ==
    IF entries = <<>> THEN ""
    ELSE Quote(Head(entries).k) \o ":" \o JsonStringify(Head(entries).v) \o
         (IF Len(entries) = 1 THEN "" ELSE "," \o JoinEntries(Tail(entries)))

JsonStringify(v) ==
    CASE v.t = "number" -> NumberToString(v.x)
      [] v.t = "string" -> Quote(Concat(v.s))
      [] v.t = "boolean" -> IF v.b THEN "true" ELSE "false"
      [] v.t = "null" -> "null"
      [] v.t = "undefined" -> "undefined"
      [] v.t = "array" -> "[" \o JoinItems(v.items) \o "]"
      [] v.t = "object" ->
           "{" \o JoinEntries(SelectSeq(v.entries,
                                        LAMBDA e : e.v.t # "undefined")) \o "}"

(***************************************************************************)
(* The random source and the scalar generators.  Each generator is the set *)
(* of the values it can return, one for each outcome of Math.random().     *)
(***************************************************************************)
\* Math.random(): a number in [0, 1), here on the grid of step 1 / RandRes.
MathRandom == {Rat(k, RandRes) : k \in 0 .. RandRes - 1}

\* A mutant of getRandomInteger: Math.round in place of Math.floor.
getRandomIntegerRounded(min, max) ==
    {Add(FromInt(Floor(Add(Mul(r, Add(Sub(max, min), FromInt(1))), Rat(1, 2)))),
         min) : r \in MathRandom}

\* function getRandomInteger(min, max)
getRandomInteger(min, max) ==
    {Add(FromInt(Floor(Mul(r, Add(Sub(max, min), FromInt(1))))), min) :
        r \in MathRandom}

\* function getRandomNumber(min, max)
getRandomNumber(min, max) ==
    {Add(Mul(r, Sub(max, min)), min) : r \in MathRandom}

\* function getRandomBoolean()
getRandomBoolean == {Less(r, Rat(1, 2)) : r \in MathRandom}

\* const chars in getRandomString
chars ==
    <<
      "A", "B", "C", "D", "E", "F", "G", "H", "I", "J", "K", "L", "M",
      "N", "O", "P", "Q", "R", "S", "T", "U", "V", "W", "X", "Y", "Z",
      "a", "b", "c", "d", "e", "f", "g", "h", "i", "j", "k", "l", "m",
      "n", "o", "p", "q", "r", "s", "t", "u", "v", "w", "x", "y", "z",
      "0", "1", "2", "3", "4", "5", "6", "7", "8", "9"
    >>

\* A mutant of charAt: the index is taken as 1-based.
charAtOneBased(str, index) ==
    IF index \in 1 .. Len(str) THEN <<str[index]>> ELSE <<>>

\* String.prototype.charAt: the character at a 0-based index, or the empty
\* string when the index is outside the string.
charAt(str, index) ==
    IF index \in 0 .. Len(str) - 1 THEN <<str[index + 1]>> ELSE <<>>

\* The draws of one call of getRandomString: the i-th character is drawn at
\* the grid point (start + i) / chars.length, so that every symbol of chars
\* occurs at every position of the string.
MathRandomAt(start, i) == Rat((start + i) % Len(chars), Len(chars))

\* The for loop of getRandomString from the state (result, i).
RECURSIVE getRandomStringLoop(_, _, _, _)
getRandomStringLoop(result, i, length, start) ==
    IF Less(FromInt(i), length)
    THEN getRandomStringLoop(
             result \o charAt(chars, Floor(Mul(MathRandomAt(start, i),
                                               FromInt(Len(chars))))),
             i + 1, length, start)
    ELSE result

\* function getRandomString(length)
getRandomString(length) ==
    {getRandomStringLoop(<<>>, 0, length, start) : start \in 0 .. Len(chars) - 1}

\* The number of iterations of "for (let i = 0; i < length; i++)".
Iterations(length) ==
    IF LessEq(length, FromInt(0)) THEN 0 ELSE -Floor(Sub(FromInt(0), length))

(***************************************************************************)
(* Schema nodes.  A node is a record holding the keywords it declares: a   *)
(* keyword the node does not declare (undefined in JavaScript) is not in   *)
(* the record's domain.  properties is the sequence <<[k, v], ...>> of the *)
(* declared properties in for-in order, required a sequence of names.      *)
(***************************************************************************)
Has(node, keyword) == keyword \in DOMAIN node

Includes(seq, e) == \E i \in DOMAIN seq : seq[i] = e

\* The node a path leads to from the root: "items" steps into an array
\* node's item schema, "properties", k into the schema of property k.
RECURSIVE NodeAt(_, _)
NodeAt(node, path) ==
    IF path = <<>> THEN node
    ELSE IF Head(path) = "items" THEN NodeAt(node.items, Tail(path))
    ELSE NodeAt(node.properties[Get(node.properties, path[2])].v,
                Tail(Tail(path)))

\* Whether the path leads to a node, or to undefined or null (an array node
\* that declares no items, a property whose schema is undefined or null: an
\* entry of properties without v).
RECURSIVE Defined(_, _)
Defined(node, path) ==
    IF path = <<>> THEN TRUE
    ELSE IF Head(path) = "items"
         THEN Has(node, "items") /\ Defined(node.items, Tail(path))
    ELSE LET entry == node.properties[Get(node.properties, path[2])]
         IN  Has(entry, "v") /\ Defined(entry.v, Tail(Tail(path)))

\* Number.MIN_SAFE_INTEGER and Number.MAX_SAFE_INTEGER
MIN_SAFE_INTEGER == -(2 ^ 53 - 1)

MAX_SAFE_INTEGER == 2 ^ 53 - 1

\* A mutant of UsesEnum: the enum is read only when the node has no type.
UsesEnumWhenUntyped(node) == Has(node, "enum") /\ ~Has(node, "type")

\* if (schema.enum)
UsesEnum(node) == Has(node, "enum")

\* enumValues[index]: the element at a 0-based index, undefined outside.
ElementAt(enumValues, index) ==
    IF IsInteger(index) /\ index.n \in 0 .. Len(enumValues) - 1
    THEN enumValues[index.n + 1]
    ELSE Undefined

\* generateData, enum branch: enumValues[getRandomInteger(0, length - 1)]
EnumValue(node) ==
    {ElementAt(node.enum, index) :
        index \in getRandomInteger(FromInt(0), FromInt(Len(node.enum) - 1))}

\* generateData, case "integer"
IntMin(node) ==
    IF Has(node, "minimum") THEN node.minimum ELSE FromInt(MIN_SAFE_INTEGER)

IntMax(node) ==
    IF Has(node, "maximum") THEN node.maximum ELSE FromInt(MAX_SAFE_INTEGER)

IntegerValue(node) == {Num(v) : v \in getRandomInteger(IntMin(node), IntMax(node))}

\* generateData, case "number"
NumMin(node) ==
    IF Has(node, "minimum") THEN node.minimum ELSE FromInt(-(10 ^ 10))

NumMax(node) ==
    IF Has(node, "maximum") THEN node.maximum ELSE FromInt(10 ^ 10)

NumberValue(node) == {Num(v) : v \in getRandomNumber(NumMin(node), NumMax(node))}

\* generateData, case "string"
MinLength(node) ==
    IF Has(node, "minLength") THEN node.minLength ELSE FromInt(0)

MaxLength(node) ==
    IF Has(node, "maxLength") THEN node.maxLength
    ELSE Add(MinLength(node), FromInt(20))

StringLength(node) == getRandomInteger(MinLength(node), MaxLength(node))

\* generateArray: minItems, maxItems, uniqueItems
MinItems(node) ==
    IF Has(node, "minItems") THEN node.minItems ELSE FromInt(0)

MaxItems(node) ==
    IF Has(node, "maxItems") THEN node.maxItems
    ELSE Add(MinItems(node), FromInt(10))

UniqueItems(node) ==
    IF Has(node, "uniqueItems") THEN node.uniqueItems ELSE FALSE

\* A mutant of ShortCircuit: schema.minItems is compared, not its default.
ShortCircuitDeclaredOnly(node) ==
    /\ Has(node, "minItems") /\ node.minItems = FromInt(0)
    /\ Has(node, "maxItems") /\ node.maxItems = FromInt(0)

\* if (minItems === 0 && maxItems === 0)
ShortCircuit(node) ==
    MinItems(node) = FromInt(0) /\ MaxItems(node) = FromInt(0)

\* A mutant of IsUnique: items are compared by their type.
IsUniqueByType(result, item) ==
    ~\E i \in DOMAIN result : result[i].t = item.t

\* !result.some(e => JSON.stringify(e) === JSON.stringify(item))
IsUnique(result, item) ==
    ~\E i \in DOMAIN result : JsonStringify(result[i]) = JsonStringify(item)

\* generateObject: schema.properties || {}, schema.required || []
Properties(node) ==
    IF Has(node, "properties") THEN node.properties ELSE <<>>

Required(node) ==
    IF Has(node, "required") THEN node.required ELSE <<>>

\* properties.hasOwnProperty(key) calls Object.prototype.hasOwnProperty,
\* unless properties has a key of that name: then it calls a schema node,
\* which is not a function.
Callable(properties) == "hasOwnProperty" \notin Keys(properties)

\* The inclusion probability of an optional property: Math.random() < 0.7
Included(r) == Less(r, Rat(7, 10))

\* result[key] = value on an object literal: the name __proto__ reaches the
\* setter of Object.prototype and creates no own property.
SetProperty(result, key, value) ==
    IF key = "__proto__" THEN result
    ELSE IF key \in Keys(result)
         THEN [result EXCEPT ![Get(result, key)].v = value]
    ELSE Append(result, [k |-> key, v |-> value])

(***************************************************************************)
(* The schemas generation is run on: the schemas of the tests and of the   *)
(* specification's scenarios (with ranges that the grid of Math.random()   *)
(* covers), and one schema for each case a claim singles out.              *)
(***************************************************************************)
Red == <<"r", "e", "d">>

Green == <<"g", "r", "e", "e", "n">>

Blue == <<"b", "l", "u", "e">>

OneToThree == [type |-> "integer", minimum |-> FromInt(1), maximum |-> FromInt(3)]

BooleanNode == [type |-> "boolean"]

UnknownNode == [type |-> "date"]

ColourNode == [type |-> "string", enum |-> <<Str(Red), Str(Green), Str(Blue)>>]

EmptyArrayNode ==
    [type |-> "array", minItems |-> FromInt(0), maxItems |-> FromInt(0),
     items |-> [type |-> "integer"]]

ScalarSchemas ==
    { OneToThree,
      [type |-> "integer", minimum |-> FromInt(-1), maximum |-> FromInt(-1)],
      [type |-> "integer", minimum |-> Rat(3, 2), maximum |-> Rat(7, 2)],
      [type |-> "number", minimum |-> Rat(1, 2), maximum |-> Rat(21, 2)],
      [type |-> "string", minLength |-> FromInt(1), maxLength |-> FromInt(3)],
      [type |-> "string"],
      [type |-> "string", minLength |-> FromInt(2)],
      BooleanNode,
      UnknownNode,
      [minimum |-> FromInt(1), maximum |-> FromInt(3)] }

EnumSchemas ==
    { ColourNode,
      [type |-> "integer", minimum |-> FromInt(1), maximum |-> FromInt(3),
       enum |-> <<IntVal(10), IntVal(20), IntVal(30)>>],
      [type |-> "boolean", enum |-> <<Bool(TRUE)>>],
      [type |-> "array", minItems |-> FromInt(1), maxItems |-> FromInt(2),
       items |-> BooleanNode,
       enum |-> <<Arr(<<IntVal(1), IntVal(2)>>), Arr(<<>>)>>],
      [type |-> "object", required |-> <<"role">>,
       properties |-> <<[k |-> "role", v |-> BooleanNode]>>,
       enum |-> <<Obj(<<[k |-> "role", v |-> Str(Red)]>>),
                  Obj(<<[k |-> "role", v |-> Str(Blue)]>>)>>],
      [type |-> "date", enum |-> <<Null, IntVal(0)>>],
      [enum |-> <<Str(Green), Bool(FALSE)>>],
      [type |-> "string", enum |-> <<>>] }

ArraySchemas ==
    { EmptyArrayNode,
      [type |-> "array", maxItems |-> FromInt(0), items |-> BooleanNode],
      [type |-> "array", minItems |-> FromInt(1), maxItems |-> FromInt(3),
       items |-> BooleanNode],
      [type |-> "array",
       items |-> [type |-> "integer", minimum |-> FromInt(7),
                  maximum |-> FromInt(7)]],
      [type |-> "array", minItems |-> FromInt(2), items |-> UnknownNode],
      [type |-> "array", minItems |-> FromInt(2), maxItems |-> FromInt(4),
       items |-> ColourNode],
      [type |-> "array", minItems |-> FromInt(1), maxItems |-> FromInt(2),
       items |-> EmptyArrayNode],
      [type |-> "array", minItems |-> FromInt(1), maxItems |-> FromInt(2),
       items |-> [type |-> "array", minItems |-> FromInt(0),
                  maxItems |-> FromInt(1), items |-> BooleanNode]],
      [type |-> "array", minItems |-> FromInt(1), maxItems |-> FromInt(1)],
      [type |-> "array", minItems |-> FromInt(0), maxItems |-> FromInt(0)] }

UniqueArraySchemas ==
    { [type |-> "array", uniqueItems |-> TRUE, minItems |-> FromInt(2),
       maxItems |-> FromInt(3), items |-> OneToThree],
      [type |-> "array", uniqueItems |-> TRUE, minItems |-> FromInt(2),
       maxItems |-> FromInt(3),
       items |-> [type |-> "string", enum |-> <<Str(Red), Str(Green)>>]],
      [type |-> "array", uniqueItems |-> TRUE, minItems |-> FromInt(1),
       maxItems |-> FromInt(3), items |-> BooleanNode],
      [type |-> "array", uniqueItems |-> TRUE, minItems |-> FromInt(2),
       maxItems |-> FromInt(2),
       items |-> [enum |-> <<Obj(<<[k |-> "a", v |-> IntVal(1)],
                                   [k |-> "b", v |-> IntVal(2)]>>),
                             Obj(<<[k |-> "b", v |-> IntVal(2)],
                                   [k |-> "a", v |-> IntVal(1)]>>)>>]],
      [type |-> "array", uniqueItems |-> TRUE, minItems |-> FromInt(1),
       maxItems |-> FromInt(3),
       items |-> [type |-> "object",
                  properties |-> <<[k |-> "flag", v |-> BooleanNode]>>]],
      [type |-> "array", uniqueItems |-> TRUE, minItems |-> FromInt(2),
       maxItems |-> FromInt(2),
       items |-> [type |-> "array", minItems |-> FromInt(0),
                  maxItems |-> FromInt(1), items |-> BooleanNode]] }

ObjectSchemas ==
    { [type |-> "object", required |-> <<"id">>,
       properties |-> <<[k |-> "id", v |-> OneToThree],
                        [k |-> "flag", v |-> BooleanNode]>>],
      [type |-> "object", required |-> <<"ghost", "a">>,
       properties |-> <<[k |-> "a", v |-> BooleanNode]>>],
      [type |-> "object", required |-> <<"ghost">>],
      [type |-> "object"],
      [type |-> "object", required |-> <<"id">>,
       properties |-> <<[k |-> "id", v |-> OneToThree], [k |-> "extra"]>>],
      [type |-> "object",
       properties |-> <<[k |-> "flag", v |-> BooleanNode],
                        [k |-> "hasOwnProperty", v |-> BooleanNode]>>],
      [type |-> "object",
       properties |-> <<[k |-> "__proto__", v |-> BooleanNode],
                        [k |-> "flag", v |-> BooleanNode]>>],
      [type |-> "object",
       properties |-> <<[k |-> "optionalProp", v |-> BooleanNode],
                        [k |-> "other", v |-> UnknownNode]>>],
      [type |-> "object", required |-> <<"when", "__proto__">>,
       properties |-> <<[k |-> "when", v |-> UnknownNode],
                        [k |-> "__proto__", v |-> [type |-> "object"]]>>],
      [type |-> "object", required |-> <<"user">>,
       properties |->
         <<[k |-> "user",
            v |-> [type |-> "object", required |-> <<"interests">>,
                   properties |->
                     <<[k |-> "age", v |-> OneToThree],
                       [k |-> "interests",
                        v |-> [type |-> "array", minItems |-> FromInt(1),
                               maxItems |-> FromInt(2),
                               items |-> ColourNode]]>>]],
           [k |-> "settings",
            v |-> [type |-> "object",
                   properties |-> <<[k |-> "theme", v |-> ColourNode]>>]]>>] }

Schemas ==
    ScalarSchemas \cup EnumSchemas \cup ArraySchemas \cup UniqueArraySchemas
        \cup ObjectSchemas

(***************************************************************************)
(* The state of one run of the program.                                    *)
(***************************************************************************)
VARIABLES
    schema,   \* the schema object the caller passes to generateRandomData
    calls,    \* the number of calls of generateRandomData made so far
    mode,     \* "idle": not called yet; "call": generateData(arg) is entered;
              \* "run": the function of the top frame runs; "return": ret is
              \* returned to the top frame; "done": generateRandomData has
              \* returned ret; "thrown": it has thrown a TypeError
    arg,      \* the path in schema of the node generateData is called on
              \* ("call") or has returned from ("return", "done")
    stack,    \* the frames of generateArray and generateObject, innermost last
    ret,      \* the value being returned
    branch,   \* the branch the last call of generateData took
    draws     \* the number of Math.random() calls of the last step

vars == <<schema, calls, mode, arg, stack, ret, branch, draws>>

Node == NodeAt(schema, arg)

Top == stack[Len(stack)]

Pop == SubSeq(stack, 1, Len(stack) - 1)

TopIs(fn) == stack # <<>> /\ Top.fn = fn

ReplaceTop(frame) == [stack EXCEPT ![Len(stack)] = frame]

Init ==
    /\ schema \in Schemas
    /\ calls = 0
    /\ mode = "idle"
    /\ arg = <<>>
    /\ stack = <<>>
    /\ ret = Undefined
    /\ branch = "none"
    /\ draws = 0

\* generateRandomData(schema): return generateData(schema)
Call ==
    /\ mode \in {"idle", "done", "thrown"}
    /\ calls < MaxCalls
    /\ calls' = calls + 1
    /\ mode' = "call"
    /\ arg' = <<>>
    /\ stack' = <<>>
    /\ ret' = Undefined
    /\ branch' = "none"
    /\ draws' = 0
    /\ UNCHANGED schema

\* generateData(undefined) or generateData(null): reading schema.enum throws
\* a TypeError, which nothing in generateRandomData catches.
DataThrow ==
    /\ mode = "call"
    /\ ~Defined(schema, arg)
    /\ mode' = "thrown"
    /\ stack' = <<>>
    /\ ret' = Undefined
    /\ draws' = 0
    /\ UNCHANGED <<schema, calls, arg, branch>>

\* A call of generateData that returns value without calling further.
Leaf(name, value, n) ==
    /\ mode' = "return"
    /\ ret' = value
    /\ branch' = name
    /\ draws' = n
    /\ UNCHANGED <<schema, calls, arg, stack>>

\* A mutant of DataEnum: an enum without elements throws instead of
\* returning enumValues[0].
DataEnumRaising ==
    /\ mode = "call"
    /\ Defined(schema, arg)
    /\ UsesEnum(Node)
    /\ IF Node.enum = <<>>
       THEN /\ mode' = "thrown"
            /\ stack' = <<>>
            /\ ret' = Undefined
            /\ draws' = 0
            /\ UNCHANGED <<schema, calls, arg, branch>>
       ELSE \E value \in EnumValue(Node) : Leaf("enum", value, 1)

\* generateData: if (schema.enum) return enumValues[getRandomInteger(...)]
DataEnum ==
    /\ mode = "call"
    /\ Defined(schema, arg)
    /\ UsesEnum(Node)
    /\ \E value \in EnumValue(Node) : Leaf("enum", value, 1)

\* The case of switch (schema.type) that generateData takes.
Case(node) ==
    IF Has(node, "type") /\
       node.type \in {"integer", "number", "string", "boolean", "array", "object"}
    THEN node.type
    ELSE "default"

Dispatch(name) ==
    /\ mode = "call"
    /\ Defined(schema, arg)
    /\ ~UsesEnum(Node)
    /\ Case(Node) = name

DataInteger ==
    /\ Dispatch("integer")
    /\ \E value \in IntegerValue(Node) : Leaf("integer", value, 1)

DataNumber ==
    /\ Dispatch("number")
    /\ \E value \in NumberValue(Node) : Leaf("number", value, 1)

DataString ==
    /\ Dispatch("string")
    /\ \E length \in StringLength(Node) :
          \E s \in getRandomString(length) :
             Leaf("string", Str(s), 1 + Iterations(length))

DataBoolean ==
    /\ Dispatch("boolean")
    /\ \E b \in getRandomBoolean : Leaf("boolean", Bool(b), 1)

\* A mutant of DataDefault: an unknown type throws.
DataDefaultThrows ==
    /\ Dispatch("default")
    /\ mode' = "thrown"
    /\ stack' = <<>>
    /\ ret' = Undefined
    /\ branch' = "default"
    /\ draws' = 0
    /\ UNCHANGED <<schema, calls, arg>>

\* default: return null
DataDefault ==
    /\ Dispatch("default")
    /\ Leaf("default", Null, 0)

\* generateArray: if (minItems === 0 && maxItems === 0) return []
ArrayShortCircuit ==
    /\ Dispatch("array")
    /\ ShortCircuit(Node)
    /\ Leaf("array", Arr(<<>>), 0)

\* The schema with keyword = value written into the node at path.
RECURSIVE WithKeyword(_, _, _, _)
WithKeyword(node, path, keyword, value) ==
    IF path = <<>>
    THEN [k \in DOMAIN node \cup {keyword} |->
             IF k = keyword THEN value ELSE node[k]]
    ELSE IF Head(path) = "items"
         THEN [node EXCEPT !.items = WithKeyword(@, Tail(path), keyword, value)]
    ELSE [node EXCEPT !.properties[Get(node.properties, path[2])].v =
             WithKeyword(@, Tail(Tail(path)), keyword, value)]

\* A mutant of ArrayStart: the default of uniqueItems is stored in the
\* schema (schema.uniqueItems = schema.uniqueItems || false).
ArrayStartStoringDefault ==
    /\ Dispatch("array")
    /\ ~ShortCircuit(Node)
    /\ \E length \in getRandomInteger(MinItems(Node), MaxItems(Node)) :
          stack' = Append(stack, [fn |-> "generateArray", path |-> arg,
                                  uniqueItems |-> UniqueItems(Node),
                                  length |-> length, result |-> <<>>])
    /\ schema' = WithKeyword(schema, arg, "uniqueItems", UniqueItems(Node))
    /\ mode' = "run"
    /\ branch' = "array"
    /\ draws' = 1
    /\ UNCHANGED <<calls, arg, ret>>

\* generateArray up to the while loop: the length is drawn.
ArrayStart ==
    /\ Dispatch("array")
    /\ ~ShortCircuit(Node)
    /\ \E length \in getRandomInteger(MinItems(Node), MaxItems(Node)) :
          stack' = Append(stack, [fn |-> "generateArray", path |-> arg,
                                  uniqueItems |-> UniqueItems(Node),
                                  length |-> length, result |-> <<>>])
    /\ mode' = "run"
    /\ branch' = "array"
    /\ draws' = 1
    /\ UNCHANGED <<schema, calls, arg, ret>>

\* while (result.length < length) { const item = generateData(itemsSchema)
ArrayLoopCall ==
    /\ mode = "run"
    /\ TopIs("generateArray")
    /\ Less(FromInt(Len(Top.result)), Top.length)
    /\ mode' = "call"
    /\ arg' = Top.path \o <<"items">>
    /\ draws' = 0
    /\ UNCHANGED <<schema, calls, stack, ret, branch>>

\* A mutant of ArrayReceive: the loop gives up on uniqueness once an item is
\* rejected, and pushes it.
ArrayReceiveGivingUp ==
    /\ mode = "return"
    /\ TopIs("generateArray")
    /\ stack' = ReplaceTop([Top EXCEPT !.result = Append(@, ret)])
    /\ mode' = "run"
    /\ arg' = Top.path
    /\ ret' = Undefined
    /\ draws' = 0
    /\ UNCHANGED <<schema, calls, branch>>

\* The item comes back: it is pushed, or dropped when uniqueItems holds and
\* an accepted item has the same JSON text.
ArrayReceive ==
    /\ mode = "return"
    /\ TopIs("generateArray")
    /\ stack' = ReplaceTop(
          IF Top.uniqueItems /\ ~IsUnique(Top.result, ret) THEN Top
          ELSE [Top EXCEPT !.result = Append(@, ret)])
    /\ mode' = "run"
    /\ arg' = Top.path
    /\ ret' = Undefined
    /\ draws' = 0
    /\ UNCHANGED <<schema, calls, branch>>

\* The while loop ends: return result
ArrayReturn ==
    /\ mode = "run"
    /\ TopIs("generateArray")
    /\ ~Less(FromInt(Len(Top.result)), Top.length)
    /\ mode' = "return"
    /\ ret' = Arr(Top.result)
    /\ arg' = Top.path
    /\ stack' = Pop
    /\ branch' = "array"
    /\ draws' = 0
    /\ UNCHANGED <<schema, calls>>

\* generateObject up to the for-in loop
ObjectStart ==
    /\ Dispatch("object")
    /\ stack' = Append(stack, [fn |-> "generateObject", path |-> arg,
                               i |-> 1, result |-> <<>>])
    /\ mode' = "run"
    /\ branch' = "object"
    /\ draws' = 0
    /\ UNCHANGED <<schema, calls, arg, ret>>

ObjectNode == NodeAt(schema, Top.path)

ObjectKey == Properties(ObjectNode)[Top.i].k

InLoop ==
    /\ mode = "run"
    /\ TopIs("generateObject")
    /\ Top.i <= Len(Properties(ObjectNode))
    /\ Callable(Properties(ObjectNode))

\* if (properties.hasOwnProperty(key)) throws a TypeError when
\* properties.hasOwnProperty is a schema node.
ObjectThrow ==
    /\ mode = "run"
    /\ TopIs("generateObject")
    /\ Top.i <= Len(Properties(ObjectNode))
    /\ ~Callable(Properties(ObjectNode))
    /\ mode' = "thrown"
    /\ stack' = <<>>
    /\ ret' = Undefined
    /\ draws' = 0
    /\ UNCHANGED <<schema, calls, arg, branch>>

\* A mutant of CallProperty: every property is generated from the schema of
\* the first one.
CallFirstProperty ==
    /\ mode' = "call"
    /\ arg' = Top.path \o <<"properties", Properties(ObjectNode)[1].k>>
    /\ UNCHANGED <<schema, calls, stack, ret, branch>>

\* generateData(properties[key])
CallProperty ==
    /\ mode' = "call"
    /\ arg' = Top.path \o <<"properties", ObjectKey>>
    /\ UNCHANGED <<schema, calls, stack, ret, branch>>

\* A mutant of ObjectRequired: a required property is drawn like an
\* optional one, and skipped when the draw is not below 0.7.
ObjectRequiredDrawn ==
    /\ InLoop
    /\ Includes(Required(ObjectNode), ObjectKey)
    /\ draws' = 1
    /\ \/ (\E r \in MathRandom : Included(r)) /\ CallProperty
       \/ /\ \E r \in MathRandom : ~Included(r)
          /\ stack' = ReplaceTop([Top EXCEPT !.i = @ + 1])
          /\ UNCHANGED <<schema, calls, mode, arg, ret, branch>>

\* isRequired: the property is generated, Math.random() is not called
ObjectRequired ==
    /\ InLoop
    /\ Includes(Required(ObjectNode), ObjectKey)
    /\ draws' = 0
    /\ CallProperty

\* !isRequired && Math.random() < 0.7: the property is generated
ObjectInclude ==
    /\ InLoop
    /\ ~Includes(Required(ObjectNode), ObjectKey)
    /\ \E r \in MathRandom : Included(r)
    /\ draws' = 1
    /\ CallProperty

\* !isRequired && !(Math.random() < 0.7): the property is skipped
ObjectSkip ==
    /\ InLoop
    /\ ~Includes(Required(ObjectNode), ObjectKey)
    /\ \E r \in MathRandom : ~Included(r)
    /\ stack' = ReplaceTop([Top EXCEPT !.i = @ + 1])
    /\ draws' = 1
    /\ UNCHANGED <<schema, calls, mode, arg, ret, branch>>

\* result[key] = generateData(properties[key])
ObjectReceive ==
    /\ mode = "return"
    /\ TopIs("generateObject")
    /\ stack' = ReplaceTop([Top EXCEPT !.result = SetProperty(@, ObjectKey, ret),
                                       !.i = @ + 1])
    /\ mode' = "run"
    /\ arg' = Top.path
    /\ ret' = Undefined
    /\ draws' = 0
    /\ UNCHANGED <<schema, calls, branch>>

\* The object with null under each of the names it has no key for.
RECURSIVE WithNames(_, _)
WithNames(result, names) ==
    IF names = <<>> THEN result
    ELSE WithNames(IF Head(names) \in Keys(result) THEN result
                   ELSE Append(result, [k |-> Head(names), v |-> Null]),
                   Tail(names))

\* A mutant of ObjectReturn: every required name the loop left out is added.
ObjectReturnWithRequired ==
    /\ mode = "run"
    /\ TopIs("generateObject")
    /\ Top.i > Len(Properties(ObjectNode))
    /\ mode' = "return"
    /\ ret' = Obj(WithNames(Top.result, Required(ObjectNode)))
    /\ arg' = Top.path
    /\ stack' = Pop
    /\ branch' = "object"
    /\ draws' = 0
    /\ UNCHANGED <<schema, calls>>

\* The for-in loop ends: return result
ObjectReturn ==
    /\ mode = "run"
    /\ TopIs("generateObject")
    /\ Top.i > Len(Properties(ObjectNode))
    /\ mode' = "return"
    /\ ret' = Obj(Top.result)
    /\ arg' = Top.path
    /\ stack' = Pop
    /\ branch' = "object"
    /\ draws' = 0
    /\ UNCHANGED <<schema, calls>>

\* generateData(schema) returns to generateRandomData, which returns it.
Return ==
    /\ mode = "return"
    /\ stack = <<>>
    /\ mode' = "done"
    /\ draws' = 0
    /\ UNCHANGED <<schema, calls, arg, stack, ret, branch>>

Next ==
    \/ Call
    \/ DataThrow
    \/ DataEnum
    \/ DataInteger
    \/ DataNumber
    \/ DataString
    \/ DataBoolean
    \/ DataDefault
    \/ ArrayShortCircuit
    \/ ArrayStart
    \/ ArrayLoopCall
    \/ ArrayReceive
    \/ ArrayReturn
    \/ ObjectStart
    \/ ObjectRequired
    \/ ObjectInclude
    \/ ObjectSkip
    \/ ObjectThrow
    \/ ObjectReceive
    \/ ObjectReturn
    \/ Return

Spec == Init /\ [][Next]_vars

(***************************************************************************)
(* The values of a node: every value that a call of generateData on the    *)
(* node can return, computed from the node alone.  A call that throws or   *)
(* that never ends returns none.                                           *)
(***************************************************************************)
RECURSIVE Produces(_)
RECURSIVE ItemSequences(_, _, _)
RECURSIVE PropertyResults(_, _, _, _)

\* The results of the while loop of generateArray after n pushes of items
\* drawn from values.
ItemSequences(values, n, uniqueItems) ==
    IF n = 0 THEN {<<>>}
    ELSE {Append(p[1], p[2]) :
            p \in {q \in ItemSequences(values, n - 1, uniqueItems) \X values :
                      ~uniqueItems \/ IsUnique(q[1], q[2])}}

\* generateArray(node)
ArrayValues(node) ==
    IF ShortCircuit(node) THEN {Arr(<<>>)}
    ELSE UNION {
           IF Iterations(length) = 0 THEN {Arr(<<>>)}
           ELSE IF ~Has(node, "items") THEN {}
           ELSE {Arr(items) :
                   items \in ItemSequences(Produces(node.items),
                                           Iterations(length),
                                           UniqueItems(node))} :
           length \in getRandomInteger(MinItems(node), MaxItems(node))}

\* The results of the for-in loop of generateObject from the i-th property
\* on, starting from one of results.
PropertyResults(properties, i, results, required) ==
    IF i > Len(properties) THEN results
    ELSE LET key == properties[i].k
             values == IF Has(properties[i], "v")
                       THEN Produces(properties[i].v) ELSE {}
             set == {SetProperty(r, key, v) : r \in results, v \in values}
         IN  PropertyResults(properties, i + 1,
                             IF Includes(required, key) THEN set
                             ELSE results \cup set,
                             required)

\* generateObject(node)
ObjectValues(node) ==
    IF Properties(node) # <<>> /\ ~Callable(Properties(node)) THEN {}
    ELSE {Obj(r) : r \in PropertyResults(Properties(node), 1, {<<>>},
                                        Required(node))}

\* generateData(node)
Produces(node) ==
    IF UsesEnum(node) THEN EnumValue(node)
    ELSE CASE Case(node) = "integer" -> IntegerValue(node)
           [] Case(node) = "number" -> NumberValue(node)
           [] Case(node) = "string" ->
                 UNION {{Str(str) : str \in getRandomString(length)} :
                           length \in StringLength(node)}
           [] Case(node) = "boolean" -> {Bool(b) : b \in getRandomBoolean}
           [] Case(node) = "array" -> ArrayValues(node)
           [] Case(node) = "object" -> ObjectValues(node)
           [] OTHER -> {Null}

(***************************************************************************)
(* The program with a fair random source.  A call of generateArray or of   *)
(* generateObject that has started runs on (no step it can take is put off *)
(* for ever), and where a draw is taken again and again, which happens     *)
(* only in the item generation of an array with uniqueItems, every outcome *)
(* of the draw comes up again and again: every value of a leaf node, the   *)
(* inclusion and the skipping of an optional property, every length of an  *)
(* array.                                                                  *)
(***************************************************************************)
\* The node and every node under it.
RECURSIVE Nodes(_)
Nodes(node) ==
    {node}
        \cup (IF Has(node, "items") THEN Nodes(node.items) ELSE {})
        \cup (IF Has(node, "properties")
              THEN UNION {IF Has(node.properties[i], "v")
                          THEN Nodes(node.properties[i].v) ELSE {} :
                             i \in DOMAIN node.properties}
              ELSE {})

\* The nodes that generate the items of an array with uniqueItems.
RetriedNodes ==
    UNION {IF UniqueItems(node) /\ Has(node, "items") THEN Nodes(node.items)
           ELSE {} : node \in UNION {Nodes(s) : s \in Schemas}}

IsLeaf(node) == UsesEnum(node) \/ Case(node) \notin {"array", "object"}

\* The value of a leaf node that the k-th outcome of its draw gives: the
\* element of the enum at index k, the integer minimum + k, true for k = 0
\* and false for k = 1.
Outcome(node, k) ==
    IF UsesEnum(node)
    THEN (IF k < Len(node.enum) THEN {node.enum[k + 1]} ELSE {})
    ELSE IF Case(node) = "integer"
    THEN {Num(Add(IntMin(node), FromInt(k)))} \cap IntegerValue(node)
    ELSE IF Case(node) = "boolean"
    THEN {Bool(b) : b \in {c \in getRandomBoolean : k = (IF c THEN 0 ELSE 1)}}
    ELSE {}

\* The outcomes of the draws of the retried leaf nodes.
FairOutcomes ==
    {k \in 0 .. RandRes - 1 :
        \E node \in RetriedNodes : IsLeaf(node) /\ Outcome(node, k) # {}}

FairLengths ==
    UNION {getRandomInteger(MinItems(node), MaxItems(node)) :
              node \in {n \in RetriedNodes : ~IsLeaf(n) /\ Case(n) = "array"}}

\* A call of generateArray or of generateObject is running.
Running == stack # <<>>

\* A call of generateData on a leaf node, made by generateArray or by
\* generateObject, draws its k-th outcome.
LeafDraws(k) ==
    /\ Running
    /\ mode = "call"
    /\ Defined(schema, arg)
    /\ IsLeaf(Node)
    /\ ret' \in Outcome(Node, k)
    /\ DataEnum \/ DataInteger \/ DataBoolean

\* generateArray draws length.
ArrayDraws(length) ==
    /\ ArrayStart
    /\ stack'[Len(stack')].length = length

FairSpec ==
    /\ Spec
    /\ WF_vars(Running /\ Next)
    /\ \A k \in FairOutcomes : SF_vars(LeafDraws(k))
    /\ \A length \in FairLengths : SF_vars(ArrayDraws(length))
    /\ SF_vars(ObjectInclude)
    /\ SF_vars(ObjectSkip)

(***************************************************************************)
(* The claims.  Each formula reads the schema node and the returned value  *)
(* directly, not through the operators that model the generator.           *)
(***************************************************************************)
\* A call of generateData on the node at arg has returned ret.
Returned == mode \in {"return", "done"}

\* The node at arg declares no enum and has the given type.
Typed(type) ==
    /\ Defined(schema, arg)
    /\ ~Has(Node, "enum")
    /\ Has(Node, "type")
    /\ Node.type = type

Elements(seq) == {seq[i] : i \in DOMAIN seq}

\* C1: an integer node without enum that declares minimum = a and
\* maximum = b returns an integer v with a <= v <= b.
C1_IntegerWithinDeclaredBounds ==
    (Returned /\ Typed("integer") /\ Has(Node, "minimum") /\ Has(Node, "maximum"))
        => /\ ret.t = "number"
           /\ IsInteger(ret.x)
           /\ LessEq(Node.minimum, ret.x)
           /\ LessEq(ret.x, Node.maximum)

\* C2: a node that declares an enum returns through the enum branch of
\* generateData, whatever its type, and what it returns is an element of the
\* enum; generateArray and generateObject never run on such a node.  The
\* data model defines an enum as a non-empty sequence: the empty one has no
\* element to return, and enumValues[0] is then undefined.
C2_EnumTakesPrecedence ==
    /\ (Returned /\ Defined(schema, arg) /\ Has(Node, "enum"))
          => /\ branch = "enum"
             /\ Node.enum # <<>> => ret \in Elements(Node.enum)
             /\ Node.enum = <<>> => ret = Undefined
    /\ \A i \in DOMAIN stack : ~Has(NodeAt(schema, stack[i].path), "enum")

C2_Witness ==
    /\ mode = "return"
    /\ stack = <<>>
    /\ Has(Node, "enum")
    /\ Has(Node, "type")
    /\ Node.type = "array"
    /\ ret = Node.enum[2]

\* generateObject has returned ret for the object node at arg.
ObjectReturned == Returned /\ Typed("object")

C4_OnlyDeclaredKeys ==
    /\ ObjectReturned => Keys(ret.entries) \subseteq Keys(Properties(Node))
    /\ \A i \in DOMAIN stack :
          stack[i].fn = "generateObject" =>
              Keys(stack[i].result)
                  \subseteq Keys(Properties(NodeAt(schema, stack[i].path)))

C4_Witness ==
    /\ ObjectReturned
    /\ "ghost" \in Elements(Required(Node))
    /\ Keys(ret.entries) = {"a"}

\* generateArray has returned ret for the array node at arg.
ArrayReturned == Returned /\ Typed("array")

\* C5: the array that generateArray returns has a length in
\* [minItems, maxItems], an absent minItems counting as 0 and an absent
\* maxItems as minItems + 10.
C5_ArrayLengthWithinBounds ==
    ArrayReturned =>
        LET min == IF Has(Node, "minItems") THEN Node.minItems ELSE FromInt(0)
            max == IF Has(Node, "maxItems") THEN Node.maxItems
                   ELSE Add(min, FromInt(10))
        IN  /\ ret.t = "array"
            /\ LessEq(min, FromInt(Len(ret.items)))
            /\ LessEq(FromInt(Len(ret.items)), max)

C5_Witness ==
    /\ ArrayReturned
    /\ Has(Node, "minItems")
    /\ ~Has(Node, "maxItems")
    /\ FromInt(Len(ret.items)) = Add(Node.minItems, FromInt(10))

\* Structural (deep) equality of two values: numbers, strings, booleans and
\* null by value, arrays element by element, objects by their key sets and
\* the values under each key, whatever the insertion order.
RECURSIVE DeepEqual(_, _)
DeepEqual(a, b) ==
    IF a.t # b.t THEN FALSE
    ELSE CASE a.t = "number" -> a.x = b.x
           [] a.t = "string" -> a.s = b.s
           [] a.t = "boolean" -> a.b = b.b
           [] a.t = "null" -> TRUE
           [] a.t = "undefined" -> TRUE
           [] a.t = "array" ->
                /\ Len(a.items) = Len(b.items)
                /\ \A i \in DOMAIN a.items : DeepEqual(a.items[i], b.items[i])
           [] a.t = "object" ->
                /\ Keys(a.entries) = Keys(b.entries)
                /\ \A i \in DOMAIN a.entries :
                      DeepEqual(a.entries[i].v,
                                b.entries[Get(b.entries, a.entries[i].k)].v)

PairwiseDistinct(items) ==
    \A i, j \in DOMAIN items : i < j => ~DeepEqual(items[i], items[j])

\* C6, as claimed: under uniqueItems the accepted items are pairwise distinct
\* by deep equality, at every point of the loop and in the returned array.
C6_UniqueItemsDeeplyDistinct ==
    /\ \A i \in DOMAIN stack :
          (stack[i].fn = "generateArray" /\
           Has(NodeAt(schema, stack[i].path), "uniqueItems") /\
           NodeAt(schema, stack[i].path).uniqueItems)
              => PairwiseDistinct(stack[i].result)
    /\ (ArrayReturned /\ Has(Node, "uniqueItems") /\ Node.uniqueItems)
          => PairwiseDistinct(ret.items)

Alphanumeric ==
    {"A", "B", "C", "D", "E", "F", "G", "H", "I", "J", "K", "L", "M",
     "N", "O", "P", "Q", "R", "S", "T", "U", "V", "W", "X", "Y", "Z",
     "a", "b", "c", "d", "e", "f", "g", "h", "i", "j", "k", "l", "m",
     "n", "o", "p", "q", "r", "s", "t", "u", "v", "w", "x", "y", "z",
     "0", "1", "2", "3", "4", "5", "6", "7", "8", "9"}

\* C7: a string node without enum returns a string s of alphanumeric
\* characters with minLength <= len(s) <= maxLength, an absent minLength
\* counting as 0 and an absent maxLength as minLength + 20.
C7_StringWithinBounds ==
    (Returned /\ Typed("string")) =>
        LET min == IF Has(Node, "minLength") THEN Node.minLength ELSE FromInt(0)
            max == IF Has(Node, "maxLength") THEN Node.maxLength
                   ELSE Add(min, FromInt(20))
        IN  /\ ret.t = "string"
            /\ LessEq(min, FromInt(Len(ret.s)))
            /\ LessEq(FromInt(Len(ret.s)), max)
            /\ Cardinality(Alphanumeric) = 62
            /\ \A i \in DOMAIN ret.s : ret.s[i] \in Alphanumeric

C7_Witness ==
    /\ Returned
    /\ Typed("string")
    /\ Has(Node, "minLength")
    /\ ~Has(Node, "maxLength")
    /\ FromInt(Len(ret.s)) = Add(Node.minLength, FromInt(20))
    /\ {"9", "A"} \subseteq Elements(ret.s)

\* The node declares no enum, and no type or a type that is none of the six.
UnknownType(node) ==
    /\ ~Has(node, "enum")
    /\ \/ ~Has(node, "type")
       \/ node.type \notin {"integer", "number", "string", "boolean", "array",
                            "object"}

\* C8: generateData called on a node of unknown or missing type returns
\* null to its caller; it does not throw, at the root or nested.
C8_UnknownTypeReturnsNull ==
    [][(mode = "call" /\ Defined(schema, arg) /\ UnknownType(Node))
          => (mode' = "return" /\ ret' = Null /\ arg' = arg /\ stack' = stack)]_vars

C8_Witness ==
    /\ mode = "return"
    /\ TopIs("generateObject")
    /\ UnknownType(Node)
    /\ ret = Null

\* The array node declares no enum, minItems 0 or none, and maxItems 0.
EmptyInterval(node) ==
    /\ ~Has(node, "enum")
    /\ Has(node, "type") /\ node.type = "array"
    /\ Has(node, "minItems") => node.minItems = FromInt(0)
    /\ Has(node, "maxItems") /\ node.maxItems = FromInt(0)

\* C9: generateArray called on a node whose length interval is {0} returns
\* [] at once: no call of Math.random(), no call of generateData on items.
C9_EmptyIntervalShortCircuits ==
    [][(mode = "call" /\ Defined(schema, arg) /\ EmptyInterval(Node))
          => (mode' = "return" /\ ret' = Arr(<<>>) /\ draws' = 0 /\
              arg' = arg /\ stack' = stack)]_vars

C9_Witness ==
    /\ mode = "return"
    /\ TopIs("generateArray")
    /\ EmptyInterval(Node)
    /\ Has(Node, "items")
    /\ ret = Arr(<<>>)
    /\ draws = 0

\* C10: no step of generation changes the schema, in any call of
\* generateRandomData.
C10_SchemaNeverMutated == [][schema' = schema]_vars

C10_Witness ==
    /\ calls = MaxCalls
    /\ mode = "done"
    /\ Typed("array")
    /\ Has(Node, "uniqueItems")
    /\ Len(ret.items) = 3

RECURSIVE Complete(_)
Complete(node) ==
    /\ (Has(node, "type") /\ node.type = "array") => Has(node, "items")
    /\ Has(node, "items") => Complete(node.items)
    /\ Has(node, "properties") =>
          \A i \in DOMAIN node.properties :
             /\ node.properties[i].k # "hasOwnProperty"
             /\ Has(node.properties[i], "v")
             /\ Complete(node.properties[i].v)

Distinct(node) == Cardinality({JsonStringify(v) : v \in Produces(node)})

\* The frame is a call of generateArray with uniqueItems whose drawn length
\* exceeds the number of distinct values of its item schema.
Unsatisfiable(frame) ==
    /\ frame.fn = "generateArray"
    /\ frame.uniqueItems
    /\ Has(NodeAt(schema, frame.path), "items")
    /\ Less(FromInt(Distinct(NodeAt(schema, frame.path).items)), frame.length)

\* C12: a call of generateArray with uniqueItems whose drawn length exceeds
\* the number of distinct values of the item schema never returns: its
\* result never holds more items than there are distinct values, so it
\* stays shorter than the length, and no step ends the call; the result
\* never shrinks.
C12_UnsatisfiableUniqueNeverReturns ==
    /\ [](\A i \in DOMAIN stack :
            Unsatisfiable(stack[i]) =>
               /\ Len(stack[i].result)
                     <= Distinct(NodeAt(schema, stack[i].path).items)
               /\ Less(FromInt(Len(stack[i].result)), stack[i].length))
    /\ [][\A i \in DOMAIN stack :
            Unsatisfiable(stack[i]) =>
               /\ i \in DOMAIN stack'
               /\ stack'[i].fn = "generateArray"
               /\ stack'[i].path = stack[i].path
               /\ stack'[i].length = stack[i].length
               /\ Len(stack'[i].result) >= Len(stack[i].result)
               /\ mode' \notin {"done", "thrown"}]_vars

\* Boolean items, length 3: both booleans are accepted, the result holds
\* every distinct value and is shorter than the length.
C12_Witness ==
    /\ mode = "run"
    /\ TopIs("generateArray")
    /\ Unsatisfiable(Top)
    /\ Has(NodeAt(schema, Top.path).items, "type")
    /\ NodeAt(schema, Top.path).items.type = "boolean"
    /\ Top.length = FromInt(3)
    /\ Len(Top.result) = 2
    /\ branch = "boolean"

\* Generation on the node ends, by a return, in every run with a fair random
\* source: every array node that generation reaches declares items, no
\* property is named hasOwnProperty or lacks a schema node, and no array
\* with uniqueItems can draw a length above the number of distinct values of
\* its items.
RECURSIVE Terminates(_)
Terminates(node) ==
    \/ Has(node, "enum")
    \/ /\ Has(node, "type") /\ node.type = "array" =>
             /\ Has(node, "items")
             /\ Terminates(node.items)
             /\ (Has(node, "uniqueItems") /\ node.uniqueItems) =>
                   \A length \in getRandomInteger(MinItems(node), MaxItems(node)) :
                      LessEq(length, FromInt(Distinct(node.items)))
       /\ Has(node, "type") /\ node.type = "object" /\ Has(node, "properties") =>
             \A i \in DOMAIN node.properties :
                /\ node.properties[i].k # "hasOwnProperty"
                /\ Has(node.properties[i], "v")
                /\ Terminates(node.properties[i].v)

\* The frame is a call of generateArray whose item generation terminates
\* and whose drawn length the item schema can fill.
Satisfiable(frame) ==
    /\ frame.fn = "generateArray"
    /\ Has(NodeAt(schema, frame.path), "items")
    /\ Terminates(NodeAt(schema, frame.path).items)
    /\ frame.uniqueItems =>
          LessEq(frame.length, FromInt(Distinct(NodeAt(schema, frame.path).items)))

\* The deepest nesting of calls of generateArray and generateObject over the
\* schemas of the library.
RECURSIVE Depth(_)
Depth(node) ==
    IF IsLeaf(node) THEN 0
    ELSE 1 + (IF Has(node, "items") /\ Case(node) = "array"
              THEN Depth(node.items)
              ELSE IF Has(node, "properties") /\ Case(node) = "object"
              THEN LET depths == {IF Has(node.properties[i], "v")
                                  THEN Depth(node.properties[i].v) ELSE 0 :
                                     i \in DOMAIN node.properties} \cup {0}
                   IN  CHOOSE d \in depths : \A e \in depths : e <= d
              ELSE 0)

MaxDepth == LET depths == {Depth(s) : s \in Schemas}
            IN  CHOOSE d \in depths : \A e \in depths : e <= d

\* C13: with a fair random source, a call of generateArray whose item
\* generation terminates and whose drawn length does not exceed the number
\* of distinct values of the item schema when uniqueItems holds eventually
\* returns.  Until then the call is neither abandoned nor ended by a throw;
\* it ends by returning an array of exactly the drawn length; and without
\* uniqueItems every item that comes back is pushed, one item generation
\* for each element.
C13_SatisfiableArrayReturns ==
    /\ \A i \in 1 .. MaxDepth :
          (i \in DOMAIN stack /\ Satisfiable(stack[i])) ~> (Len(stack) < i)
    /\ [][\A i \in DOMAIN stack :
            Satisfiable(stack[i]) =>
               \/ /\ i \in DOMAIN stack'
                  /\ stack'[i].path = stack[i].path
                  /\ stack'[i].length = stack[i].length
                  /\ Len(stack'[i].result) >= Len(stack[i].result)
                  /\ (i = Len(stack) /\ mode = "return" /\ ~stack[i].uniqueItems)
                        => stack'[i].result = Append(stack[i].result, ret)
               \/ /\ i = Len(stack)
                  /\ stack' = Pop
                  /\ mode' = "return"
                  /\ ret' = Arr(stack[i].result)
                  /\ FromInt(Len(stack[i].result)) = stack[i].length]_vars

\* An array with uniqueItems over the integers 1..3 has returned three
\* items: the drawn length equals the number of distinct values.
C13_Witness ==
    /\ ArrayReturned
    /\ Has(Node, "uniqueItems")
    /\ Node.uniqueItems
    /\ Has(Node.items, "type")
    /\ Node.items.type = "integer"
    /\ Len(ret.items) = 3

\* generateObject is at a property that required does not list.
AtOptional ==
    /\ mode = "run"
    /\ TopIs("generateObject")
    /\ Top.i <= Len(Properties(ObjectNode))
    /\ ~Includes(Required(ObjectNode), ObjectKey)

\* The value of a property comes back to generateObject.
AtReceive == mode = "return" /\ TopIs("generateObject")

\* The schema node of the property of the object node that is named key.
PropertyNode(node, key) == node.properties[Get(node.properties, key)].v

\* What C14 says of the keys that are present, and of the empty mapping:
\* the value under a key is a value of the property's own schema node, and
\* the object is empty when properties is empty.
PresentValuesAndEmpty ==
    /\ ObjectReturned =>
          \A i \in DOMAIN ret.entries :
             /\ ret.entries[i].k \in Keys(Properties(Node))
             /\ Has(Properties(Node)[Get(Properties(Node), ret.entries[i].k)], "v")
             /\ ret.entries[i].v
                   \in Produces(PropertyNode(Node, ret.entries[i].k))
    /\ (ObjectReturned /\ Properties(Node) = <<>>) => ret.entries = <<>>

\* A step that skips a property leaves the result as it is.
SkipKeepsResult ==
    (AtOptional /\ mode' = "run" /\ Len(stack') = Len(stack))
        => stack'[Len(stack')].result = Top.result

=============================================================================
